---- MODULE Spec2Model ----
(***************************************************************************)
(* Model of src/part2/memory_management/rust_memory.rs: the DataBuffer     *)
(* type (new, display_info, fill_with_values, into_sum, Drop), the free    *)
(* functions process_buffer and modify_buffer, and main's seven demo       *)
(* blocks.                                                                 *)
(*                                                                         *)
(* Two specifications share the function bodies:                           *)
(*   Spec     main's run, statement by statement and loop iteration by     *)
(*            loop iteration;                                              *)
(*   SpecOps  one buffer driven by an arbitrary caller, with arbitrary     *)
(*            lengths, start values and multipliers, in both build         *)
(*            profiles (overflow checks on: debug, off: release).          *)
(* Element values are i32: every sum and product is computed with its      *)
(* 32-bit width, and no intermediate value of the model leaves that range. *)
(***************************************************************************)
EXTENDS Integers, Sequences, FiniteSets, TLC

VARIABLES
    bufs,             \* the DataBuffers ever constructed, by id (index)
    binds,            \* the bindings: which one owns which buffer
    call,             \* the function being executed, "none" between calls
    out,              \* the lines printed so far
    pc,               \* main's next statement
    locals,           \* main's i32 locals: count1, count2, sum
    boxes,            \* DEMO 5's Box allocations
    cache,            \* DEMO 6's HashMap<String, Vec<i32>>
    values,           \* DEMO 6's `values` of the two if-let blocks
    overflow_checks,  \* build profile: TRUE panics on overflow, FALSE wraps
    panicked,         \* the thread has panicked
    ncalls            \* calls issued by the arbitrary caller (SpecOps)

vars == <<bufs, binds, call, out, pc, locals, boxes, cache, values,
          overflow_checks, panicked, ncalls>>

-----------------------------------------------------------------------------
(* Bounds of the arbitrary caller. *)
MaxLen == 3
MaxCalls == 3

StartValues == {-1, 1, 10, 2147483646}
Multipliers == {-1, 0, 2, 65536}
Names == {"Buf"}

-----------------------------------------------------------------------------
(* i32 arithmetic. *)
I32_MAX == 2147483647
I32_MIN == -I32_MAX - 1

Abs(x) == IF x < 0 THEN -x ELSE x

\* a + b is representable in i32
AddFits(a, b) ==
    IF b > 0 THEN a <= I32_MAX - b
    ELSE IF b < 0 THEN a >= I32_MIN - b
    ELSE TRUE

\* a + b modulo 2^32, as a two's complement i32
\* (a + b - 2^32 when the sum is above I32_MAX, a + b + 2^32 when below I32_MIN)
WrapAdd(a, b) ==
    IF b > 0 /\ a > I32_MAX - b
    THEN ((a - I32_MAX) - 1) + ((b - I32_MAX) - 1)
    ELSE IF b < 0 /\ a < I32_MIN - b
    THEN ((a + I32_MAX) + 1) + ((b + I32_MAX) + 1)
    ELSE a + b

\* x * y modulo 2^16 for x, y in 0..65535, by the bytes of x
MulMod16(x, y) ==
    ((((x \div 256) * y) % 256) * 256 + (x % 256) * y) % 65536

\* a * b modulo 2^32, as a two's complement i32. With a = ah * 2^16 + al and
\* b = bh * 2^16 + bl (al, bl in 0..65535):
\*   a * b = al * bl + (ah * bl + al * bh) * 2^16   (mod 2^32)
\* and al * bl = t1 * 256 + t0 is summed by halves of 16 bits.
WrapMul(a, b) ==
    LET al == a % 65536
        bl == b % 65536
        ah == (a \div 65536) % 65536
        bh == (b \div 65536) % 65536
        t1 == (al \div 256) * bl
        t0 == (al % 256) * bl
        lo == (t1 % 256) * 256 + t0
        hi == (t1 \div 256 + lo \div 65536 + MulMod16(ah, bl) + MulMod16(al, bh))
              % 65536
    IN  (IF hi >= 32768 THEN hi - 65536 ELSE hi) * 65536 + (lo % 65536)

\* a * b is representable in i32
MulFits(a, b) ==
    IF a = 0 \/ b = 0 THEN TRUE
    ELSE IF a = I32_MIN THEN b = 1
    ELSE IF b = I32_MIN THEN a = 1
    ELSE LET x == Abs(a)
             y == Abs(b)
             q == I32_MAX \div y
         IN  IF (a > 0) = (b > 0) THEN x <= q
             ELSE IF I32_MAX % y = y - 1 THEN x - 1 <= q ELSE x <= q

\* `i as i32` for a usize i below 2^32
AsI32(i) == IF i <= I32_MAX THEN i ELSE I32_MIN + (i - I32_MAX - 1)

-----------------------------------------------------------------------------
(* Values. *)
\* Faulty variant of Zeros: one element too many.
ZerosOffByOne(n) == [k \in 1..(n + 1) |-> 0]

\* vec![0; n]
Zeros(n) == [k \in 1..n |-> 0]

\* A call frame: the function, the buffer it works on, the binding the
\* buffer is reached through, its argument, its loop index and accumulator.
\* `old` is the buffer's data when the call began, `prev` the function and
\* the result of the call before it. A frame stays, inactive, after its
\* function has returned.
NoCall == [fn |-> "none", active |-> FALSE, buf |-> 0, name |-> "", i |-> 0,
           via |-> "", arg |-> 0, acc |-> 0, dest |-> "", printed |-> FALSE,
           old |-> <<>>, prev |-> [fn |-> "none", acc |-> 0]]

Frame(fn, buf, arg, dest) ==
    [NoCall EXCEPT !.fn = fn, !.active = TRUE, !.buf = buf, !.arg = arg,
                   !.dest = dest, !.old = bufs[buf].data,
                   !.prev = [fn |-> call.fn, acc |-> call.acc]]

NewFrame(name, size, dest) ==
    [NoCall EXCEPT !.fn = "new", !.active = TRUE, !.name = name, !.arg = size,
                   !.dest = dest, !.prev = [fn |-> call.fn, acc |-> call.acc]]

Unbound == [st |-> "unbound", buf |-> 0]
Owns(b) == [st |-> "owns", buf |-> b]
Moved(b) == [st |-> "moved", buf |-> b]

Bindings == {"buffer1", "buffer1_moved", "buffer2", "buffer3", "buffer4",
             "self", "buffer"}
LocalNames == {"count1", "count2", "sum"}

NoValues == [some |-> FALSE, val |-> <<>>]
Some(v) == [some |-> TRUE, val |-> v]

EmptyMap == [k \in {} |-> <<>>]
BoxNames == {"boxed_value", "large_data"}
NoBox == [alloc |-> FALSE, val |-> 0, bytes |-> 0]

\* A printed line: the source line of its println!, the buffer name and the
\* numbers it shows.
Line(n, name, vals) == [line |-> n, name |-> name, vals |-> vals]
Emit(seq, n, name, vals) == Append(seq, Line(n, name, vals))

Live(id) == id \in 1..Len(bufs) /\ bufs[id].st = "live"

Running(fn) == call.active /\ call.fn = fn
Returned == [call EXCEPT !.active = FALSE]

-----------------------------------------------------------------------------
(* Function bodies: one action per step of the executing function. *)

\* Drop::drop followed by the release of the fields: the lines printed
DropOut(id) == Emit(out, 50, bufs[id].name, <<>>)
\* ... and the buffers afterwards
DropBufs(id) == [bufs EXCEPT ![id].st = "dropped"]

\* DataBuffer::new
New ==
    /\ Running("new")
    /\ out' = Emit(Emit(out, 16, call.name, <<call.arg>>), 17, "", <<>>)
    /\ bufs' = Append(bufs, [data |-> Zeros(call.arg), name |-> call.name,
                             st |-> "live"])
    /\ binds' = [binds EXCEPT ![call.dest] = Owns(Len(bufs) + 1)]
    /\ call' = [Returned EXCEPT !.buf = Len(bufs) + 1]
    /\ UNCHANGED <<pc, locals, boxes, cache, values, overflow_checks,
                   panicked, ncalls>>

\* DataBuffer::display_info
DisplayInfo ==
    /\ Running("display_info")
    /\ out' = Emit(Emit(out, 26, bufs[call.buf].name,
                        <<Len(bufs[call.buf].data)>>), 27, "", <<>>)
    /\ call' = Returned
    /\ UNCHANGED <<bufs, binds, pc, locals, boxes, cache, values,
                   overflow_checks, panicked, ncalls>>

\* the value fill_with_values stores at index i: start + i as i32
FillValue(start, i) == WrapAdd(start, AsI32(i))

\* DataBuffer::fill_with_values, one iteration of the loop
FillLoop ==
    /\ Running("fill_with_values")
    /\ call.i < Len(bufs[call.buf].data)
    /\ IF overflow_checks /\ ~AddFits(call.arg, AsI32(call.i))
       THEN /\ panicked' = TRUE
            /\ call' = Returned
            /\ UNCHANGED bufs
       ELSE /\ bufs' = [bufs EXCEPT ![call.buf].data[call.i + 1] =
                                        FillValue(call.arg, call.i)]
            /\ call' = [call EXCEPT !.i = call.i + 1]
            /\ UNCHANGED panicked
    /\ UNCHANGED <<binds, out, pc, locals, boxes, cache, values,
                   overflow_checks, ncalls>>

\* DataBuffer::fill_with_values, after the loop
FillReturn ==
    /\ Running("fill_with_values")
    /\ call.i = Len(bufs[call.buf].data)
    /\ out' = Emit(out, 35, bufs[call.buf].name, <<>>)
    /\ call' = Returned
    /\ UNCHANGED <<bufs, binds, pc, locals, boxes, cache, values,
                   overflow_checks, panicked, ncalls>>

\* the value modify_buffer stores over item: item * multiplier
ModifyValue(item, multiplier) == WrapMul(item, multiplier)

\* modify_buffer, one iteration of the loop
ModifyLoop ==
    /\ Running("modify_buffer")
    /\ call.i < Len(bufs[call.buf].data)
    /\ IF overflow_checks /\ ~MulFits(bufs[call.buf].data[call.i + 1], call.arg)
       THEN /\ panicked' = TRUE
            /\ call' = Returned
            /\ UNCHANGED bufs
       ELSE /\ bufs' = [bufs EXCEPT ![call.buf].data[call.i + 1] =
                            ModifyValue(bufs[call.buf].data[call.i + 1], call.arg)]
            /\ call' = [call EXCEPT !.i = call.i + 1]
            /\ UNCHANGED panicked
    /\ UNCHANGED <<binds, out, pc, locals, boxes, cache, values,
                   overflow_checks, ncalls>>

\* modify_buffer, after the loop
ModifyReturn ==
    /\ Running("modify_buffer")
    /\ call.i = Len(bufs[call.buf].data)
    /\ out' = Emit(out, 65, bufs[call.buf].name, <<>>)
    /\ call' = Returned
    /\ UNCHANGED <<bufs, binds, pc, locals, boxes, cache, values,
                   overflow_checks, panicked, ncalls>>

\* one step of iter().sum(): the accumulator after adding item
SumValue(acc, item) == WrapAdd(acc, item)

\* DataBuffer::into_sum, one step of self.data.iter().sum()
IntoSumLoop ==
    /\ Running("into_sum")
    /\ call.i < Len(bufs[call.buf].data)
    /\ IF overflow_checks /\ ~AddFits(call.acc, bufs[call.buf].data[call.i + 1])
       THEN /\ panicked' = TRUE
            /\ call' = Returned
       ELSE /\ call' = [call EXCEPT
                           !.i = call.i + 1,
                           !.acc = SumValue(call.acc, bufs[call.buf].data[call.i + 1])]
            /\ UNCHANGED panicked
    /\ UNCHANGED <<bufs, binds, out, pc, locals, boxes, cache, values,
                   overflow_checks, ncalls>>

\* DataBuffer::into_sum, the println after the sum
IntoSumPrint ==
    /\ Running("into_sum")
    /\ call.i = Len(bufs[call.buf].data)
    /\ ~call.printed
    /\ out' = Emit(out, 41, bufs[call.buf].name, <<call.acc>>)
    /\ call' = [call EXCEPT !.printed = TRUE]
    /\ UNCHANGED <<bufs, binds, pc, locals, boxes, cache, values,
                   overflow_checks, panicked, ncalls>>

\* Faulty variant of IntoSumReturn: the sum reaches the caller and self is
\* never dropped.
IntoSumReturnKeep ==
    /\ Running("into_sum")
    /\ call.printed
    /\ binds' = [binds EXCEPT !["self"] = Unbound]
    /\ locals' = [locals EXCEPT ![call.dest] = call.acc]
    /\ call' = Returned
    /\ UNCHANGED <<bufs, out, pc, boxes, cache, values, overflow_checks,
                   panicked, ncalls>>

\* DataBuffer::into_sum, the end of the body: self is dropped, then the
\* sum reaches the caller
IntoSumReturn ==
    /\ Running("into_sum")
    /\ call.printed
    /\ out' = DropOut(call.buf)
    /\ bufs' = DropBufs(call.buf)
    /\ binds' = [binds EXCEPT !["self"] = Unbound]
    /\ locals' = [locals EXCEPT ![call.dest] = call.acc]
    /\ call' = Returned
    /\ UNCHANGED <<pc, boxes, cache, values, overflow_checks, panicked,
                   ncalls>>

\* process_buffer, the println before the count
ProcessPrint ==
    /\ Running("process_buffer")
    /\ ~call.printed
    /\ out' = Emit(out, 56, bufs[call.buf].name, <<>>)
    /\ call' = [call EXCEPT !.printed = TRUE]
    /\ UNCHANGED <<bufs, binds, pc, locals, boxes, cache, values,
                   overflow_checks, panicked, ncalls>>

\* Faulty variant of Counted: counts the zeros too.
CountedNonNegative(x) == x >= 0

\* the filter of process_buffer: |&&x| x > 0
Counted(x) == x > 0

\* process_buffer, one step of filter(..).count()
ProcessLoop ==
    /\ Running("process_buffer")
    /\ call.printed
    /\ call.i < Len(bufs[call.buf].data)
    /\ call' = [call EXCEPT
                   !.i = call.i + 1,
                   !.acc = IF Counted(bufs[call.buf].data[call.i + 1])
                           THEN call.acc + 1 ELSE call.acc]
    /\ UNCHANGED <<bufs, binds, out, pc, locals, boxes, cache, values,
                   overflow_checks, panicked, ncalls>>

\* process_buffer, the count `as i32` reaches the caller
ProcessReturn ==
    /\ Running("process_buffer")
    /\ call.printed
    /\ call.i = Len(bufs[call.buf].data)
    /\ locals' = [locals EXCEPT ![call.dest] = AsI32(call.acc)]
    /\ call' = Returned
    /\ UNCHANGED <<bufs, binds, out, pc, boxes, cache, values,
                   overflow_checks, panicked, ncalls>>

-----------------------------------------------------------------------------
(* Calls: what a call statement does before the callee's body runs. *)

\* DataBuffer::new(name, size), its result bound to dest
StartNew(name, size, dest) ==
    /\ call' = NewFrame(name, size, dest)
    /\ UNCHANGED binds

\* a call that borrows the buffer of binding b: b.display_info(),
\* b.fill_with_values(arg), modify_buffer(&mut b, arg), process_buffer(&b)
StartBorrow(fn, b, arg, dest) ==
    /\ call' = [Frame(fn, binds[b].buf, arg, dest) EXCEPT !.via = b]
    /\ UNCHANGED binds

\* b.into_sum(): the buffer moves from b into the callee's self
StartIntoSum(b, dest) ==
    /\ call' = [Frame("into_sum", binds[b].buf, 0, dest) EXCEPT !.via = "self"]
    /\ binds' = [binds EXCEPT ![b] = Moved(binds[b].buf),
                              !["self"] = Owns(binds[b].buf)]

\* Faulty variant of MoveBinding: a copy, the source keeps its buffer.
MoveBindingCopy(from, to) == [binds EXCEPT ![to] = binds[from]]

\* `let to = from;`
MoveBinding(from, to) ==
    [binds EXCEPT ![to] = binds[from], ![from] = Moved(binds[from].buf)]

\* Faulty variant of EndScope: the binding goes and its buffer is never
\* dropped.
EndScopeLeak(b) ==
    /\ UNCHANGED <<out, bufs>>
    /\ binds' = [binds EXCEPT ![b] = Unbound]

\* a binding goes out of scope: its buffer, if it still owns one, is dropped
EndScope(b) ==
    /\ IF binds[b].st = "owns"
       THEN /\ out' = DropOut(binds[b].buf)
            /\ bufs' = DropBufs(binds[b].buf)
       ELSE UNCHANGED <<out, bufs>>
    /\ binds' = [binds EXCEPT ![b] = Unbound]

\* HashMap::insert
MapInsert(m, k, v) == (k :> v) @@ m
\* HashMap::get
MapGet(m, k) == IF k \in DOMAIN m THEN Some(m[k]) ELSE NoValues
\* HashMap::remove: the value returned, and the map afterwards
MapRemoved(m, k) == IF k \in DOMAIN m THEN Some(m[k]) ELSE NoValues
\* Faulty variant of MapWithout: the entry stays.
MapWithoutKeep(m, k) == m
MapWithout(m, k) == [x \in DOMAIN m \ {k} |-> m[x]]

-----------------------------------------------------------------------------
(* main, statement by statement. *)

P(n) == [op |-> "println", line |-> n]
CallNew(n, dest, name, size) ==
    [op |-> "call", fn |-> "new", line |-> n, bind |-> dest, name |-> name,
     arg |-> size, dest |-> dest]
CallOn(n, fn, b, arg, dest) ==
    [op |-> "call", fn |-> fn, line |-> n, bind |-> b, name |-> "",
     arg |-> arg, dest |-> dest]
End(n, b) == [op |-> "end_scope", line |-> n, bind |-> b]

Program == <<
    P(69), P(70), P(71),
    \* DEMO 1
    P(76),
    CallNew(78, "buffer1", "Buffer1", 5),
    CallOn(79, "display_info", "buffer1", 0, ""),
    [op |-> "move", line |-> 81, from |-> "buffer1", to |-> "buffer1_moved"],
    CallOn(82, "display_info", "buffer1_moved", 0, ""),
    P(85),
    End(86, "buffer1_moved"), End(86, "buffer1"),
    \* DEMO 2
    P(91),
    CallNew(93, "buffer2", "Buffer2", 5),
    CallOn(96, "process_buffer", "buffer2", 0, "count1"),
    CallOn(97, "process_buffer", "buffer2", 0, "count2"),
    [op |-> "println_counts", line |-> 99],
    CallOn(100, "display_info", "buffer2", 0, ""),
    End(101, "buffer2"),
    \* DEMO 3
    P(106),
    CallNew(108, "buffer3", "Buffer3", 8),
    CallOn(109, "fill_with_values", "buffer3", 10, ""),
    CallOn(112, "modify_buffer", "buffer3", 2, ""),
    CallOn(117, "display_info", "buffer3", 0, ""),
    End(118, "buffer3"),
    \* DEMO 4
    P(123),
    CallNew(125, "buffer4", "Buffer4", 6),
    CallOn(126, "fill_with_values", "buffer4", 1, ""),
    CallOn(128, "into_sum", "buffer4", 0, "sum"),
    [op |-> "println_sum", line |-> 129],
    End(132, "buffer4"),
    \* DEMO 5
    P(137),
    [op |-> "box", line |-> 139, bind |-> "boxed_value", val |-> 42, bytes |-> 4],
    [op |-> "println_box", line |-> 140],
    P(141),
    [op |-> "box", line |-> 143, bind |-> "large_data", val |-> 0,
     bytes |-> 1024 * 1024],
    P(144),
    [op |-> "end_box", line |-> 147, bind |-> "large_data"],
    [op |-> "end_box", line |-> 147, bind |-> "boxed_value"],
    \* DEMO 6
    P(152),
    [op |-> "map_new", line |-> 154],
    [op |-> "insert", line |-> 156, key |-> "key1", val |-> <<1, 2, 3>>],
    [op |-> "insert", line |-> 157, key |-> "key2", val |-> <<4, 5, 6>>],
    [op |-> "get", line |-> 160, key |-> "key1"],
    [op |-> "println_values", line |-> 161],
    [op |-> "end_if_let", line |-> 162],
    [op |-> "remove", line |-> 165, key |-> "key2"],
    [op |-> "println_values", line |-> 166],
    [op |-> "end_if_let", line |-> 167],
    [op |-> "map_end", line |-> 168],
    \* DEMO 7
    P(173), P(174), P(175), P(176), P(177),
    P(179), P(180), P(181) >>

MainReady == ~call.active /\ ~panicked /\ pc \in 1..Len(Program)
Stmt == Program[pc]

\* a println! of main; three of them show values
MainPrintln ==
    /\ MainReady
    /\ Stmt.op \in {"println", "println_counts", "println_sum", "println_box",
                    "println_values"}
    /\ out' = CASE Stmt.op = "println" -> Emit(out, Stmt.line, "", <<>>)
                 [] Stmt.op = "println_counts" ->
                        Emit(out, Stmt.line, "", <<locals["count1"], locals["count2"]>>)
                 [] Stmt.op = "println_sum" ->
                        Emit(out, Stmt.line, "", <<locals["sum"]>>)
                 [] Stmt.op = "println_box" ->
                        Emit(out, Stmt.line, "", <<boxes["boxed_value"].val>>)
                 [] Stmt.op = "println_values" ->
                        IF values.some THEN Emit(out, Stmt.line, "", values.val)
                        ELSE out
    /\ pc' = pc + 1
    /\ UNCHANGED <<bufs, binds, call, locals, boxes, cache, values,
                   overflow_checks, panicked, ncalls>>

\* a call of main: DataBuffer::new, a method of a buffer, or a free function
MainCall ==
    /\ MainReady
    /\ Stmt.op = "call"
    /\ CASE Stmt.fn = "new" -> StartNew(Stmt.name, Stmt.arg, Stmt.dest)
         [] Stmt.fn = "into_sum" -> StartIntoSum(Stmt.bind, Stmt.dest)
         [] OTHER -> StartBorrow(Stmt.fn, Stmt.bind, Stmt.arg, Stmt.dest)
    /\ pc' = pc + 1
    /\ UNCHANGED <<bufs, out, locals, boxes, cache, values, overflow_checks,
                   panicked, ncalls>>

\* let buffer1_moved = buffer1;
MainMove ==
    /\ MainReady
    /\ Stmt.op = "move"
    /\ binds' = MoveBinding(Stmt.from, Stmt.to)
    /\ pc' = pc + 1
    /\ UNCHANGED <<bufs, call, out, locals, boxes, cache, values,
                   overflow_checks, panicked, ncalls>>

\* the closing brace of a demo block, for one of the block's bindings
MainEndScope ==
    /\ MainReady
    /\ Stmt.op = "end_scope"
    /\ EndScope(Stmt.bind)
    /\ pc' = pc + 1
    /\ UNCHANGED <<call, locals, boxes, cache, values, overflow_checks,
                   panicked, ncalls>>

\* DEMO 5: Box::new and the release of a Box at the end of the block
MainBox ==
    /\ MainReady
    /\ Stmt.op \in {"box", "end_box"}
    /\ boxes' = IF Stmt.op = "box"
                THEN [boxes EXCEPT ![Stmt.bind] =
                         [alloc |-> TRUE, val |-> Stmt.val, bytes |-> Stmt.bytes]]
                ELSE [boxes EXCEPT ![Stmt.bind] = NoBox]
    /\ pc' = pc + 1
    /\ UNCHANGED <<bufs, binds, call, out, locals, cache, values,
                   overflow_checks, panicked, ncalls>>

\* DEMO 6: the statements on the HashMap
MainCache ==
    /\ MainReady
    /\ Stmt.op \in {"map_new", "insert", "get", "remove", "end_if_let", "map_end"}
    /\ cache' = CASE Stmt.op = "insert" -> MapInsert(cache, Stmt.key, Stmt.val)
                   [] Stmt.op = "remove" -> MapWithout(cache, Stmt.key)
                   [] Stmt.op \in {"map_new", "map_end"} -> EmptyMap
                   [] OTHER -> cache
    /\ values' = CASE Stmt.op = "get" -> MapGet(cache, Stmt.key)
                    [] Stmt.op = "remove" -> MapRemoved(cache, Stmt.key)
                    [] Stmt.op = "end_if_let" -> NoValues
                    [] OTHER -> values
    /\ pc' = pc + 1
    /\ UNCHANGED <<bufs, binds, call, out, locals, boxes, overflow_checks,
                   panicked, ncalls>>

Init ==
    /\ bufs = <<>>
    /\ binds = [b \in Bindings |-> Unbound]
    /\ call = NoCall
    /\ out = <<>>
    /\ pc = 1
    /\ locals = [l \in LocalNames |-> 0]
    /\ boxes = [b \in BoxNames |-> NoBox]
    /\ cache = EmptyMap
    /\ values = NoValues
    /\ overflow_checks \in BOOLEAN
    /\ panicked = FALSE
    /\ ncalls = 0

Body ==
    \/ New
    \/ DisplayInfo
    \/ FillLoop
    \/ FillReturn
    \/ ModifyLoop
    \/ ModifyReturn
    \/ IntoSumLoop
    \/ IntoSumPrint
    \/ IntoSumReturn
    \/ ProcessPrint
    \/ ProcessLoop
    \/ ProcessReturn

Next ==
    \/ MainPrintln
    \/ MainCall
    \/ MainMove
    \/ MainEndScope
    \/ MainBox
    \/ MainCache
    \/ Body

Spec == Init /\ [][Next]_vars

-----------------------------------------------------------------------------
(* One buffer in the hands of an arbitrary caller: any length up to MaxLen, *)
(* then up to MaxCalls calls with any of the start values and multipliers, *)
(* in any order, until the binding `buffer` goes out of scope.             *)

InitOps ==
    /\ bufs = <<>>
    /\ binds = [b \in Bindings |-> Unbound]
    /\ call = NoCall
    /\ out = <<>>
    /\ pc = 0
    /\ locals = [l \in LocalNames |-> 0]
    /\ boxes = [b \in BoxNames |-> NoBox]
    /\ cache = EmptyMap
    /\ values = NoValues
    /\ overflow_checks \in BOOLEAN
    /\ panicked = FALSE
    /\ ncalls = 0

OpsReady ==
    /\ pc = 0
    /\ ~call.active
    /\ ~panicked
    /\ ncalls < MaxCalls
    /\ binds["buffer"].st = "owns"

OpsFrame == <<bufs, out, pc, locals, boxes, cache, values, overflow_checks,
              panicked>>

\* let mut buffer = DataBuffer::new(name, size);
OpsNew ==
    /\ pc = 0
    /\ ~call.active
    /\ bufs = <<>>
    /\ \E size \in 0..MaxLen, name \in Names : StartNew(name, size, "buffer")
    /\ UNCHANGED <<OpsFrame, ncalls>>

\* buffer.display_info();
OpsDisplay ==
    /\ OpsReady
    /\ StartBorrow("display_info", "buffer", 0, "")
    /\ ncalls' = ncalls + 1
    /\ UNCHANGED OpsFrame

\* buffer.fill_with_values(start);
OpsFill ==
    /\ OpsReady
    /\ \E start \in StartValues : StartBorrow("fill_with_values", "buffer", start, "")
    /\ ncalls' = ncalls + 1
    /\ UNCHANGED OpsFrame

\* modify_buffer(&mut buffer, multiplier);
OpsModify ==
    /\ OpsReady
    /\ \E multiplier \in Multipliers :
           StartBorrow("modify_buffer", "buffer", multiplier, "")
    /\ ncalls' = ncalls + 1
    /\ UNCHANGED OpsFrame

\* let count1 = process_buffer(&buffer);
OpsProcess ==
    /\ OpsReady
    /\ StartBorrow("process_buffer", "buffer", 0, "count1")
    /\ ncalls' = ncalls + 1
    /\ UNCHANGED OpsFrame

\* let sum = buffer.into_sum();
OpsIntoSum ==
    /\ OpsReady
    /\ StartIntoSum("buffer", "sum")
    /\ ncalls' = ncalls + 1
    /\ UNCHANGED OpsFrame

\* the end of the caller's block
OpsEndScope ==
    /\ pc = 0
    /\ ~call.active
    /\ ~panicked
    /\ binds["buffer"].st \in {"owns", "moved"}
    /\ EndScope("buffer")
    /\ UNCHANGED <<call, pc, locals, boxes, cache, values, overflow_checks,
                   panicked, ncalls>>

\* a panic unwinds the stack: each binding that owns a buffer drops it
Unwind ==
    /\ panicked
    /\ \E b \in Bindings :
           /\ binds[b].st = "owns"
           /\ EndScope(b)
    /\ UNCHANGED <<call, pc, locals, boxes, cache, values, overflow_checks,
                   panicked, ncalls>>

NextOps ==
    \/ OpsNew
    \/ OpsDisplay
    \/ OpsFill
    \/ OpsModify
    \/ OpsProcess
    \/ OpsIntoSum
    \/ OpsEndScope
    \/ Unwind
    \/ Body

SpecOps == InitOps /\ [][NextOps]_vars

-----------------------------------------------------------------------------
(* What the claims speak of. *)

\* the call of fn that has just returned normally, its buffer not yet dropped
ReturnedFrom(fn) == call.fn = fn /\ ~call.active /\ ~panicked

Data(id) == bufs[id].data

RECURSIVE SumHigh(_)
SumHigh(s) == IF s = <<>> THEN 0 ELSE (Head(s) \div 65536) + SumHigh(Tail(s))
RECURSIVE SumLow(_)
SumLow(s) == IF s = <<>> THEN 0 ELSE (Head(s) % 65536) + SumLow(Tail(s))

\* v is the sum of the integers of s, the sum taken in the integers (by
\* halves of 16 bits, so that no step leaves 32 bits)
IsSumOf(v, s) ==
    LET h == SumHigh(s) + SumLow(s) \div 65536
    IN  /\ h \in -32768..32767
        /\ v = h * 65536 + (SumLow(s) % 65536)

\* v = a + b in the integers
IsAdd(v, a, b) == AddFits(a, b) /\ v = a + b
\* v = a * b in the integers
IsMul(v, a, b) == MulFits(a, b) /\ v = a * b

-----------------------------------------------------------------------------
\* C1: after fill_with_values(S) has returned, the element at each index i
\* (from 0) equals S + i, whatever the buffer held before.
C1_FillExact ==
    (ReturnedFrom("fill_with_values") /\ Live(call.buf)) =>
        \A k \in 1..Len(Data(call.buf)) :
            IsAdd(Data(call.buf)[k], call.arg, k - 1)

\* C2: into_sum returns the sum of the elements the buffer held when it was
\* called; N * (N + 1) / 2 for a buffer of length N filled from 1.
C2_SumExact ==
    ReturnedFrom("into_sum") =>
        /\ locals[call.dest] = call.acc
        /\ IsSumOf(call.acc, call.old)
        /\ call.old = [k \in 1..Len(call.old) |-> k] =>
               call.acc = (Len(call.old) * (Len(call.old) + 1)) \div 2

\* C4: after modify_buffer(buffer, M) has returned, each element equals M
\* times the value it held immediately before the call.
C4_ModifyExact ==
    (ReturnedFrom("modify_buffer") /\ Live(call.buf)) =>
        \A k \in 1..Len(Data(call.buf)) :
            IsMul(Data(call.buf)[k], call.old[k], call.arg)

\* C5: every operation completes normally: no thread panics, and no value
\* about to be computed (start + i, element * multiplier, the running sum)
\* leaves the range of i32.
C5_NoOverflow ==
    /\ ~panicked
    /\ (Running("fill_with_values") /\ call.i < Len(Data(call.buf))) =>
           AddFits(call.arg, AsI32(call.i))
    /\ (Running("modify_buffer") /\ call.i < Len(Data(call.buf))) =>
           MulFits(Data(call.buf)[call.i + 1], call.arg)
    /\ (Running("into_sum") /\ call.i < Len(Data(call.buf))) =>
           AddFits(call.acc, Data(call.buf)[call.i + 1])

-----------------------------------------------------------------------------
(* main's run: positions and printed lines. *)

\* the statement of main at a source line
At(n) == CHOOSE k \in 1..Len(Program) : Program[k].line = n
Done == pc = Len(Program) + 1

\* the positions in out of the lines println! n prints about buffer `name`
Where(n, name) == {j \in 1..Len(out) : out[j].line = n /\ out[j].name = name}
Printed(n) == \E j \in 1..Len(out) : out[j].line = n
\* the id-th "Creating buffer" line: the name and size new was given
NewLine(id) == SelectSeq(out, LAMBDA e : e.line = 16)[id]
\* the "Dropping buffer" lines printed so far
DropLines == SelectSeq(out, LAMBDA e : e.line = 50)
NewLines == SelectSeq(out, LAMBDA e : e.line = 16)

LiveIds == {id \in 1..Len(bufs) : Live(id)}
Owners(id) == {b \in Bindings : binds[b] = Owns(id)}

-----------------------------------------------------------------------------
\* C3: in DEMO 6, remove("key2") yields the sequence inserted under key2 and
\* leaves key2 absent; get("key1") and the removal leave key1 -> [1, 2, 3]
\* present and unchanged.
C3_RemoveReturnsInserted ==
    /\ (pc > At(165) /\ pc <= At(167)) => values = Some(Program[At(157)].val)
    /\ (pc > At(165) /\ pc <= At(168)) => "key2" \notin DOMAIN cache
    /\ (pc > At(160) /\ pc <= At(162)) => values = Some(Program[At(156)].val)
    /\ (pc > At(156) /\ pc <= At(168)) =>
           /\ "key1" \in DOMAIN cache
           /\ cache["key1"] = <<1, 2, 3>>
    /\ (pc > At(166)) => \E j \in 1..Len(out) :
                            out[j] = Line(166, "", <<4, 5, 6>>)

C3_Witness ==
    /\ pc = At(167)
    /\ values = Some(<<4, 5, 6>>)
    /\ DOMAIN cache = {"key1"}

-----------------------------------------------------------------------------
BufName == <<"Buffer1", "Buffer2", "Buffer3", "Buffer4">>
\* the first line each demo block prints, and the first line of the block after
Header == <<76, 91, 106, 123>>
NextHeader == <<91, 106, 123, 137>>
\* the last line each block prints before its closing brace
LastLine == <<85, 27, 27, 129>>
BlockStarts == {76, 91, 106, 123, 137, 152, 173, 179, 180, 181}

\* no buffer is live when a demo block starts or the final banner is printed
NoneLiveAtBlockStart ==
    (MainReady /\ Stmt.op = "println" /\ Stmt.line \in BlockStarts) =>
        LiveIds = {}

\* buffer k's drop is the last event of its block: the block's last line is
\* printed before it, and nothing but the next block follows it
DropEndsBlock(k) ==
    \A d \in Where(50, BufName[k]) :
        /\ \E j \in 1..(d - 1) :
               /\ out[j].line = LastLine[k]
               /\ \A i \in 1..j : out[i].line # NextHeader[k]
               /\ \E h \in 1..j : out[h].line = Header[k]
        /\ d < Len(out) => out[d + 1].line = NextHeader[k]

\* buffer k is dropped before the next block starts
DroppedBeforeNext(k) ==
    \A h \in 1..Len(out) :
        out[h].line = NextHeader[k] =>
            \E d \in Where(50, BufName[k]) : d < h

\* C6 as stated: each of Buffer1..Buffer4 is dropped after every other event
\* of its block, the block's last printed line included, and before the first
\* event of the next block; no buffer is live when a later demo starts or the
\* final banner is printed.
C6_DropAtBlockEnd ==
    /\ \A k \in 1..4 : DropEndsBlock(k) /\ DroppedBeforeNext(k)
    /\ NoneLiveAtBlockStart

\* C6 amended: Buffer1..Buffer3 are dropped at the end of their blocks;
\* Buffer4 is dropped inside into_sum, right after the "consumed" line and
\* before the block's last line ("Final sum"); every buffer is dropped before
\* the next block starts, and none is live at a block start or at the banner.
C6_Released ==
    /\ \A k \in 1..3 : DropEndsBlock(k)
    /\ \A d \in Where(50, BufName[4]) :
           /\ d > 1
           /\ out[d - 1].line = 41
           /\ out[d - 1].name = BufName[4]
           /\ d < Len(out) => out[d + 1].line = LastLine[4]
    /\ \A k \in 1..4 : DroppedBeforeNext(k)
    /\ NoneLiveAtBlockStart

C6_Witness ==
    /\ Printed(181)
    /\ \A k \in 1..4 : Where(50, BufName[k]) # {}
    /\ \E d \in Where(50, BufName[4]) : out[d + 1].line = 129

-----------------------------------------------------------------------------
\* C8: every live buffer has exactly one owning binding and a dropped one has
\* none; a call reaches its buffer through the binding that owns it, and main
\* never names a binding that was moved from; each buffer is dropped once,
\* so that at the end of main four were created and four dropped.
C8_SingleOwner ==
    /\ \A id \in 1..Len(bufs) :
           /\ IF Live(id) THEN Cardinality(Owners(id)) = 1 ELSE Owners(id) = {}
           /\ Cardinality(Where(50, bufs[id].name)) =
                  (IF bufs[id].st = "dropped" THEN 1 ELSE 0)
    /\ (call.active /\ call.fn # "new") =>
           /\ Live(call.buf)
           /\ binds[call.via] = Owns(call.buf)
    /\ (MainReady /\ Stmt.op = "call" /\ Stmt.fn # "new") =>
           binds[Stmt.bind].st = "owns"
    /\ (MainReady /\ Stmt.op = "move") => binds[Stmt.from].st = "owns"
    /\ \A b \in Bindings : binds[b].st = "moved" => binds[b].buf \in 1..Len(bufs)
    /\ Len(DropLines) <= Len(NewLines)
    /\ Done => /\ Len(bufs) = 4
               /\ Len(NewLines) = 4
               /\ Len(DropLines) = 4
               /\ LiveIds = {}

C8_Witness ==
    /\ Done
    /\ Len(DropLines) = 4
    /\ \A id \in 1..4 : bufs[id].st = "dropped"

-----------------------------------------------------------------------------
\* C7: within an into_sum call the sum is computed first, then the
\* "consumed" line is printed, then the buffer is dropped, then the sum
\* reaches the caller; afterwards the buffer is not live, no binding owns
\* it, and the caller holds the sum.
C7_IntoSumOrder ==
    /\ Running("into_sum") =>
           /\ Live(call.buf)
           /\ binds["self"] = Owns(call.buf)
           /\ Where(50, bufs[call.buf].name) = {}
           /\ locals[call.dest] = 0
    /\ (Running("into_sum") /\ ~call.printed) =>
           Where(41, bufs[call.buf].name) = {}
    /\ (Running("into_sum") /\ call.printed) =>
           /\ call.i = Len(Data(call.buf))
           /\ out[Len(out)] = Line(41, bufs[call.buf].name, <<call.acc>>)
    /\ ReturnedFrom("into_sum") =>
           /\ bufs[call.buf].st = "dropped"
           /\ Owners(call.buf) = {}
           /\ binds["self"] = Unbound
           /\ locals[call.dest] = call.acc
           /\ \E j \in 1..(Len(out) - 1) :
                  /\ out[j] = Line(41, bufs[call.buf].name, <<call.acc>>)
                  /\ out[j + 1] = Line(50, bufs[call.buf].name, <<>>)
                  /\ \A d \in Where(50, bufs[call.buf].name) : d = j + 1

C7_Witness ==
    /\ ReturnedFrom("into_sum")
    /\ Len(call.old) >= 2
    /\ locals["sum"] = 33
    /\ bufs[call.buf].st = "dropped"

-----------------------------------------------------------------------------
\* the number of elements of s strictly greater than 0
PositiveCount(s) == Cardinality({k \in 1..Len(s) : s[k] > 0})

\* C9: process_buffer returns the number of elements strictly greater than 0
\* and leaves the elements, the length and the name as they were; the caller
\* still owns the buffer; a call right after another returns the same count;
\* on a buffer fresh from new the count is 0.
C9_ProcessReadOnly ==
    /\ call.fn = "process_buffer" =>
           /\ Data(call.buf) = call.old
           /\ bufs[call.buf].name = NewLine(call.buf).name
    /\ Running("process_buffer") =>
           /\ Live(call.buf)
           /\ binds[call.via] = Owns(call.buf)
    /\ ReturnedFrom("process_buffer") =>
           /\ locals[call.dest] = PositiveCount(call.old)
           /\ binds[call.via] \in {Owns(call.buf), Unbound}
           /\ Live(call.buf) = (binds[call.via] = Owns(call.buf))
           /\ call.prev.fn = "process_buffer" => call.acc = call.prev.acc
           /\ call.prev.fn = "new" => locals[call.dest] = 0

C9_Witness ==
    /\ ReturnedFrom("process_buffer")
    /\ call.prev.fn = "process_buffer"
    /\ locals["count1"] = 2
    /\ Len(call.old) = 3
    /\ Live(call.buf)

-----------------------------------------------------------------------------
\* C10: new(name, size) yields size elements, all 0, labelled name; from
\* then on, whatever is called, the length stays size and the name stays
\* name.
C10_FixedShape ==
    /\ ReturnedFrom("new") =>
           /\ call.buf \in 1..Len(bufs)
           /\ Data(call.buf) = [k \in 1..call.arg |-> 0]
           /\ bufs[call.buf].name = call.name
    /\ \A id \in 1..Len(bufs) :
           /\ Len(Data(id)) = NewLine(id).vals[1]
           /\ bufs[id].name = NewLine(id).name

C10_Witness ==
    /\ ReturnedFrom("modify_buffer")
    /\ call.prev.fn = "fill_with_values"
    /\ Live(call.buf)
    /\ Len(Data(call.buf)) = 3
    /\ Data(call.buf) # call.old
    /\ ncalls = 3

====
